---- MODULE Spec2Model ----
(***************************************************************************)
(* Event-sourced API broker: the request processor and observer of         *)
(* broker/main.go, the timeout decorator, and the MongoDB and PostgreSQL   *)
(* event stores.                                                           *)
(***************************************************************************)
EXTENDS Integers, Sequences, FiniteSets, TLC

(* ------------------------------ bounds -------------------------------- *)
\* largest retries value a Configuration event carries
MaxRetries == 2
\* number of events (Configuration, Request) inserted by clients
MaxClients == 2
\* length of the event log, slots of running timers included
MaxLog == 12
\* the same three bounds for the runs with the observer and under fairness
ObsRetries == 1
ObsClients == 2
ObsLog == 6

\* the same for the runs with a failing store or a shutdown
FaultRetries == 1
FaultClients == 2
FaultLog == 6
\* goroutines that call Insert on the store concurrently
MaxTasks == 2
\* Insert calls made on the store
MaxInserts == 3
\* distinct non-nil external UUIDs the clients use
MaxUUIDs == 1
\* Insert calls made on the store while a reader follows it
FollowInserts == 3
\* POST requests the REST ingress answers
MaxPosts == 3
\* retries of the request whose State() is computed
StateRetries == 2
\* Insert calls made on a store before it is closed, and the goroutines
\* that make them
ClosedInserts == 1
ClosedTasks == 1
\* Insert calls made on a store whose stream gets cancelled
CancelInserts == 2
\* Insert calls made on a store whose UUIDs are resolved
ResolveInserts == 2
\* the bounds of the processor for the runs with a silent upstream, where
\* every Configuration event has retries 0 or less
SilentClients == 2
SilentLog == 4
\* the three bounds of the processor for the runs that look at its retries
RetryRetries == 2
RetryClients == 2
RetryLog == 8
\* the bounds of the processor for the runs with the CLI's insert command,
\* and the largest causation id given on its command line
CausClients == 2
CausLog == 4
MaxCausation == 1
\* the bounds of the processor for the runs under fair scheduling of all
\* its goroutines, where every Configuration event has retries 0 or less
LiveClients == 3
LiveLog == 7
\* the bounds of the processor for the runs in which it is started again,
\* where every Configuration event has retries 0 or less
RestartClients == 2
RestartLog == 5
\* envelopes a stream wrapped by the logging decorator emits
MaxStream == 3

(* --------------------------- program constants ------------------------ *)
\* timeout := 5 * time.Second
DefaultTimeout == 5

VARIABLES
    log,        \* the event store's log; the id of an envelope is its index
    dtimeout,   \* EventStoreTimeoutDecorator.timeout: {} is nil, {d} is &d
    dpos,       \* id of the last envelope the decorator's pass-through read
    timers,     \* pending time.AfterFunc timers of the decorator
    calls,      \* upstream goroutines started by startApiCall
    retries,    \* ProcessRequests: retries
    timeout,    \* ProcessRequests: timeout (seconds)
    requests,   \* ProcessRequests: requests map, id -> attempts vector
    ppos,       \* id of the last envelope ProcessRequests handled
    ppanic,     \* ProcessRequests ended in a runtime panic (index out of range)
    oretries,   \* WatchRequests: retries
    orequests,  \* WatchRequests: requests map
    opos,       \* id of the last envelope WatchRequests handled
    opanic,     \* WatchRequests ended in a runtime panic (index out of range)
    armed,      \* history: ids of the APIRequest envelopes inserted through
                \* the decorator while its timeout was set
    cancelled,  \* the context of the processor is cancelled
    closed,     \* Close was called on the processor's store
    cold,       \* a second processor, started with lastProcessedID = start:
                \* its state before it receives an envelope (none: {})
    posts,      \* history: the POST /request that the REST ingress answered
                \* without calling Insert
    svec,       \* requestData.attempts of a request under test
    sres,       \* what State() returned for it ("none": not called yet)
    lpc,        \* the goroutine of LoadEvents: where it stands
    lstart,     \* LoadEvents: the startAfter argument
    lsnap,      \* history: the ids the query of LoadEvents could see
    lrows,      \* LoadEvents: the rows of the query not yet read
    lout,       \* history: ids of the envelopes emitted on the channel
    merr,       \* MongoDB: the error state s.err of the store ("nil": none)
    pgerr,      \* PostgreSQL: the error state s.err of the store
    mclosedAt,  \* history: mcount when Close was called on the MongoDB store
                \* (-1: not called)
    pgclosedAt, \* history: pgcount when Close was called on the PostgreSQL store
    slast,      \* history: the last call on the store other than Insert
    driver,     \* eventStoreDriver: the store behind the EventStore interface
    fio,        \* history: an I/O error occurred while FollowEvents streamed
    pret,       \* what ProcessRequests returned ("running": not yet)
    npc,        \* the goroutine of FollowNotifications: where it stands
    rlast,      \* history: the last ResolveUUID call and what it returned
    wpc,        \* logging decorator: where the goroutine of its stream stands
    whold,      \* logging decorator: the envelope its goroutine holds
    wclosed,    \* the wrapped store has closed its stream
    wemit,      \* history: ids the wrapped stream emitted, in order
    wout,       \* history: ids delivered on the decorator's channel res
    wcall,      \* history: the last call through the logging decorator,
                \* what the wrapped store returned and what the caller got
    mevents,    \* MongoDB: the events collection, in natural (insertion) order
    mnotes,     \* MongoDB: the capped notifications collection
    ipc,        \* per task: where its Insert call stands
    ienv,       \* per task: env of the running Insert call (ID, external UUID)
    icall,      \* per task, history: what held when the Insert call started
    mcalls,     \* history: the Insert calls that returned, with their results
    mcount,     \* history: number of Insert calls started
    fpc,        \* the goroutine of FollowEvents: where it stands
    fid,        \* FollowEvents: id, the last envelope emitted
    fcur,       \* FollowNotifications: documents the tailable cursor has read
    fstart,     \* FollowEvents: the startAfter argument
    fout,       \* history: ids of the envelopes emitted on the channel
    pgseq,      \* PostgreSQL: last value of the sequence of events.id
    pgrows,     \* PostgreSQL: the rows of table events, in heap order
    pgpc,       \* per task: where its Insert call stands
    pgid,       \* per task: its Insert call and the id the INSERT was assigned
    pgcalls,    \* history: the Insert calls that returned
    pgcount,    \* history: number of Insert calls started
    gpc,        \* the goroutine of FollowEvents: where it stands
    gafter,     \* FollowEvents: startAfter, moved with every row
    gstart,     \* history: the startAfter argument
    grows,      \* FollowEvents: the rows of the running query not yet read
    gqueue,     \* notifications queued on the listening connection
    gout        \* history: ids of the envelopes emitted on the channel

wrapVars == <<wpc, whold, wclosed, wemit, wout, wcall>>

pureVars == <<svec, sres, wrapVars>>

loadVars == <<lpc, lstart, lsnap, lrows, lout>>

errVars == <<merr, pgerr, mclosedAt, pgclosedAt, slast, driver>>

streamVars == <<fio, pret>>

moreVars == <<streamVars, npc, rlast>>

auxVars == <<pureVars, loadVars, errVars, moreVars>>

coreVars == <<log, dtimeout, dpos, timers, calls, retries, timeout, requests,
              ppos, ppanic, oretries, orequests, opos, opanic, armed,
              cancelled, closed, cold, posts>>

runVars == <<cancelled, closed, cold, posts, auxVars>>

brokerVars == <<log, dtimeout, dpos, timers, calls, retries, timeout, requests,
                ppos, ppanic, oretries, orequests, opos, opanic, armed, runVars>>

procVars == <<retries, timeout, requests, ppos, ppanic>>

obsVars == <<oretries, orequests, opos, opanic>>

mongoVars == <<mevents, mnotes, ipc, ienv, icall, mcalls, mcount>>

followVars == <<fpc, fid, fcur, fstart, fout>>

pgstore == <<pgseq, pgrows, pgpc, pgid, pgcalls, pgcount>>

pgfollow == <<gpc, gafter, gstart, grows, gqueue, gout>>

pgVars == <<pgstore, pgfollow>>

storeVars == <<mongoVars, followVars, pgVars, runVars>>

vars == <<brokerVars, storeVars>>

(* ------------------------------ events -------------------------------- *)
ConfigurationEvent(r, t) ==
    [cls |-> "configuration", retries |-> r, timeout |-> t, attempt |-> 0, caus |-> 0]

RequestEvent ==
    [cls |-> "request", retries |-> 0, timeout |-> 0, attempt |-> 0, caus |-> 0]

APIRequestEvent(a, c) ==
    [cls |-> "api-request", retries |-> 0, timeout |-> 0, attempt |-> a, caus |-> c]

APIResponseEvent(a, c) ==
    [cls |-> "api-response", retries |-> 0, timeout |-> 0, attempt |-> a, caus |-> c]

APIFailureEvent(a, c) ==
    [cls |-> "api-failure", retries |-> 0, timeout |-> 0, attempt |-> a, caus |-> c]

APITimeoutEvent(a, c) ==
    [cls |-> "api-timeout", retries |-> 0, timeout |-> 0, attempt |-> a, caus |-> c]

(* --------------------------- requestData ------------------------------ *)
\* make([]requestState, retries+1): every slot is state_initial
newRequestData(r) == [i \in 1..(r + 1) |-> "initial"]

\* uint(len(request.attempts) - 1)
Retries(att) == Len(att) - 1

Succeeded(att) == \E i \in 1..Len(att) : att[i] = "success"

\* number of slots before the first state_initial one
NextAttempt(att) ==
    IF \E i \in 1..Len(att) : att[i] = "initial"
    THEN (CHOOSE i \in 1..Len(att) :
            /\ att[i] = "initial"
            /\ \A j \in 1..(i - 1) : att[j] # "initial") - 1
    ELSE Len(att)

RECURSIVE StateFrom(_, _, _)
StateFrom(att, i, res) ==
    IF i > Len(att) THEN res
    ELSE IF att[i] = "initial" THEN "pending"
    ELSE IF att[i] = "success" THEN "success"
    ELSE StateFrom(att, i + 1, att[i])

\* State() with a scan that passes over the state_initial slots
State_SkipInitial(att) ==
    LET Made(v) == v # "initial"
    IN  StateFrom(SelectSeq(att, Made), 1, "pending")

\* overall state of a request
State(att) == StateFrom(att, 1, "pending")

(* ------------------------- timeout decorator -------------------------- *)
Timer(id, ev) == [src |-> id, caus |-> ev.caus, attempt |-> ev.attempt]

\* Insert without the type assertion on APIRequestEvent: every insert
\* through the decorator schedules a timeout
DecoratorInsert_AnyClass(id, ev) ==
    IF dtimeout = {} THEN timers
    ELSE timers \cup {Timer(id, ev)}

\* Insert that never calls time.AfterFunc
DecoratorInsert_NoTimer(id, ev) == timers

\* EventStoreTimeoutDecorator.Insert: the timers after inserting ev as id
DecoratorInsert(id, ev) ==
    IF dtimeout = {} THEN timers
    ELSE IF ev.cls # "api-request" THEN timers
    ELSE timers \cup {Timer(id, ev)}

\* the pass-through of FollowEvents: timeout after a Configuration event
DecoratorTimeout(ev) ==
    IF ev.cls # "configuration" THEN dtimeout
    ELSE IF ev.timeout > 0 THEN {ev.timeout}
    ELSE {}

(* ------------------------------ bounds -------------------------------- *)
\* number of envelopes inserted by clients
ClientCount ==
    Cardinality({i \in 1..Len(log) : log[i].cls \in {"configuration", "request"}})

\* free slots of the log, one kept for every running timer
Room(cap) == cap - Len(log) - Cardinality(timers)

(* ------------------------------ Init ---------------------------------- *)
BrokerInit ==
    /\ log = <<>>
    /\ dtimeout = {}
    /\ dpos = 0
    /\ timers = {}
    /\ calls = {}
    /\ retries = 0
    /\ timeout = DefaultTimeout
    /\ requests = <<>>
    /\ ppos = 0
    /\ ppanic = FALSE
    /\ oretries = 0
    /\ orequests = <<>>
    /\ opos = 0
    /\ opanic = FALSE
    /\ armed = {}
    /\ cancelled = FALSE
    /\ closed = FALSE
    /\ cold = {}
    /\ posts = {}

Tasks == 1..MaxTasks

\* uuid.Nil is 0, the clients' UUIDs are 1..MaxUUIDs
UUIDs == 0..MaxUUIDs

NoCall == [n |-> 0, uuid |-> 0, start |-> 0, fresh |-> FALSE, retried |-> FALSE]

\* the collections as setup-mongodb-event-store.sh leaves them: no events,
\* and the notification {_id: 0} a tailable cursor needs to wait on
MongoInit ==
    /\ mevents = <<>>
    /\ mnotes = <<0>>
    /\ ipc = [t \in Tasks |-> "idle"]
    /\ ienv = [t \in Tasks |-> [id |-> 0, uuid |-> 0]]
    /\ icall = [t \in Tasks |-> NoCall]
    /\ mcalls = {}
    /\ mcount = 0
    /\ fpc = "off"
    /\ fid = 0
    /\ fcur = 0
    /\ fstart = 0
    /\ fout = <<>>

\* the table as setup-postgresql-event-store.sh creates it
PgInit ==
    /\ pgseq = 0
    /\ pgrows = <<>>
    /\ pgpc = [t \in Tasks |-> "idle"]
    /\ pgid = [t \in Tasks |-> [n |-> 0, id |-> 0]]
    /\ pgcalls = {}
    /\ pgcount = 0
    /\ gpc = "off"
    /\ gafter = 0
    /\ gstart = 0
    /\ grows = <<>>
    /\ gqueue = 0
    /\ gout = <<>>

NoOp == [op |-> "none", closed |-> FALSE, res |-> "none"]

\* no call through the logging decorator yet
NoWrapped == [op |-> "none", inner |-> <<>>, outer |-> <<>>]

NoResolve == [uuid |-> 0, carried |-> FALSE, res |-> "none", id |-> 0]

\* NewEventStore: no error state, Close not called
ErrInit ==
    /\ merr = "nil"
    /\ pgerr = "nil"
    /\ mclosedAt = -1
    /\ pgclosedAt = -1
    /\ slast = NoOp
    /\ fio = FALSE
    /\ pret = "running"
    /\ npc = "off"
    /\ rlast = NoResolve
    /\ wpc = "off"
    /\ whold = {}
    /\ wclosed = FALSE
    /\ wemit = <<>>
    /\ wout = <<>>
    /\ wcall = NoWrapped

\* no request under test
PureInit ==
    /\ svec = <<"initial">>
    /\ sres = "none"
    /\ lpc = "off"
    /\ lstart = 0
    /\ lsnap = {}
    /\ lrows = <<>>
    /\ lout = <<>>
    /\ ErrInit
    /\ driver = "mongodb"

Init == BrokerInit /\ MongoInit /\ PgInit /\ PureInit

requestState == {"initial", "pending", "success", "failure", "timeout"}

\* the values requestData.attempts can take, for retries up to StateRetries
AttemptVectors == UNION {[1..n -> requestState] : n \in 1..(StateRetries + 1)}

\* a request under test with any attempts
InitState ==
    /\ BrokerInit /\ MongoInit /\ PgInit
    /\ svec \in AttemptVectors
    /\ sres = "none"
    /\ lpc = "off" /\ lstart = 0 /\ lsnap = {} /\ lrows = <<>> /\ lout = <<>>
    /\ ErrInit
    /\ driver = "mongodb"

\* State() is called on the request under test
StateCall ==
    /\ sres = "none"
    /\ sres' = State(svec)
    /\ UNCHANGED <<svec, wrapVars, loadVars, errVars, moreVars, log, dtimeout, dpos, timers, calls, procVars,
                   obsVars, armed, cancelled, closed, cold, posts, mongoVars,
                   followVars, pgVars>>

(* --------------------------- clients ---------------------------------- *)
\* configureMain: a Configuration event is inserted by the CLI
InsertConfiguration(maxClients, maxRetries, cap) ==
    /\ ClientCount < maxClients
    /\ Room(cap) >= 1
    /\ \E r \in -1..maxRetries, t \in -1..1 :
         log' = Append(log, ConfigurationEvent(r, t))
    /\ UNCHANGED <<dtimeout, dpos, timers, calls, procVars, obsVars, armed, storeVars>>

\* insertMain / the REST ingress: a Request event is inserted by a client
InsertRequest(maxClients, cap) ==
    /\ ClientCount < maxClients
    /\ Room(cap) >= 1
    /\ log' = Append(log, RequestEvent)
    /\ UNCHANGED <<dtimeout, dpos, timers, calls, procVars, obsVars, armed, storeVars>>

(* ------------------------- timeout decorator -------------------------- *)
\* insertMain: the CLI's insert command stores an event of the class named
\* on the command line with the causation id given by --causation, which
\* ParseEventID turns into a number and which nothing compares to the log
InsertMain(maxClients, cap) ==
    /\ Room(cap) >= 1
    /\ \E c \in {"simple", "request", "api-response", "api-failure"},
          caus \in 0..MaxCausation :
         /\ c = "request" => ClientCount < maxClients
         /\ log' = Append(log, [cls |-> c, retries |-> 0, timeout |-> 0,
                                attempt |-> 0, caus |-> caus])
    /\ UNCHANGED <<dtimeout, dpos, timers, calls, procVars, obsVars, armed, storeVars>>

\* the goroutine of EventStoreTimeoutDecorator.FollowEvents takes the next
\* envelope off the store's stream; it holds it until ProcessRequests has
\* received the one before
DecoratorFollow ==
    /\ dpos < Len(log)
    /\ dpos <= ppos + 1
    /\ ~ppanic
    /\ dpos' = dpos + 1
    /\ dtimeout' = DecoratorTimeout(log[dpos + 1])
    /\ UNCHANGED <<log, timers, calls, procVars, obsVars, armed, storeVars>>

\* a store whose Insert looks at neither its error state nor the context
Blocked_Never == FALSE

\* Insert on the processor's store returns an error and stores nothing:
\* the store's error state is set by Close, or the context is done
Blocked == cancelled \/ closed

\* the function handed to time.AfterFunc runs: d.store.Insert(APITimeoutEvent)
TimerFire ==
    \E t \in timers :
        /\ log' = IF Blocked THEN log
                  ELSE Append(log, APITimeoutEvent(t.attempt, t.caus))
        /\ timers' = timers \ {t}
        /\ UNCHANGED <<dtimeout, dpos, calls, procVars, obsVars, armed, storeVars>>

(* ------------------------- request processor -------------------------- *)
APIClasses == {"api-request", "api-response", "api-failure", "api-timeout"}

\* requestID != 0 and requests[requestID] != nil
Located(reqs, ev) == ev.caus # 0 /\ ev.caus \in DOMAIN reqs

\* event.Attempt indexes a slot of request.attempts
InRange(att, a) == a + 1 \in DOMAIN att

\* the checks before the retry without the one for exhausted retries
RetryDecision_NoBudgetCheck(att, a) ==
    /\ a + 1 = NextAttempt(att)
    /\ ~Succeeded(att)

\* the three checks before the retry: retries exhausted, retry attempt
\* already started, request already succeeded
RetryDecision(att, a) ==
    /\ a # Retries(att)
    /\ a + 1 = NextAttempt(att)
    /\ ~Succeeded(att)

\* the attempts of the located request after ProcessRequests handled ev
ProcessMark(att, ev) ==
    CASE ev.cls = "api-request"  -> [att EXCEPT ![ev.attempt + 1] = "pending"]
      [] ev.cls = "api-response" -> [att EXCEPT ![ev.attempt + 1] = "success"]
      [] ev.cls = "api-failure"  -> [att EXCEPT ![ev.attempt + 1] = "failure"]
      [] ev.cls = "api-timeout"  ->
            IF att[ev.attempt + 1] # "pending" THEN att
            ELSE [att EXCEPT ![ev.attempt + 1] = "timeout"]

\* a processor that applies a Configuration event to the requests it holds:
\* their attempt vectors are made anew with the new retries
ProcessRequestsMap_Resize(reqs, rtr, id, ev) ==
    IF ev.cls = "request" THEN (id :> newRequestData(rtr)) @@ reqs
    ELSE IF ev.cls = "configuration"
    THEN [r \in DOMAIN reqs |-> newRequestData(rtr)]
    ELSE IF ev.cls \in APIClasses /\ Located(reqs, ev)
                                  /\ InRange(reqs[ev.caus], ev.attempt)
    THEN [reqs EXCEPT ![ev.caus] = ProcessMark(reqs[ev.caus], ev)]
    ELSE reqs

\* the requests map after ProcessRequests handled envelope id
ProcessRequestsMap(reqs, rtr, id, ev) ==
    IF ev.cls = "request" THEN (id :> newRequestData(rtr)) @@ reqs
    ELSE IF ev.cls \in APIClasses /\ Located(reqs, ev)
                                  /\ InRange(reqs[ev.caus], ev.attempt)
    THEN [reqs EXCEPT ![ev.caus] = ProcessMark(reqs[ev.caus], ev)]
    ELSE reqs

\* whether ProcessRequests calls startApiCall while handling ev
ProcessDispatches(reqs, ev) ==
    CASE ev.cls = "request" -> TRUE
      [] ev.cls = "api-failure" ->
            /\ Located(reqs, ev)
            /\ InRange(reqs[ev.caus], ev.attempt)
            /\ RetryDecision(ProcessMark(reqs[ev.caus], ev), ev.attempt)
      [] ev.cls = "api-timeout" ->
            /\ Located(reqs, ev)
            /\ InRange(reqs[ev.caus], ev.attempt)
            /\ reqs[ev.caus][ev.attempt + 1] = "pending"
            /\ RetryDecision(ProcessMark(reqs[ev.caus], ev), ev.attempt)
      [] OTHER -> FALSE

\* request.attempts[event.Attempt] with event.Attempt >= len: runtime panic
IndexPanics(reqs, ev) ==
    /\ ev.cls \in APIClasses
    /\ Located(reqs, ev)
    /\ ~InRange(reqs[ev.caus], ev.attempt)

Call(id, c, a) == [src |-> id, caus |-> c, attempt |-> a]

\* startApiCall: insert APIRequestEvent through the decorator, then start
\* the goroutine that calls the upstream; the result of Insert is not looked
\* at, stored tells whether the store took the event
startApiCall(c, a, stored) ==
    LET id == Len(log) + 1
        ev == APIRequestEvent(a, c)
    IN  IF stored /\ ~Blocked
        THEN /\ log' = Append(log, ev)
             /\ timers' = DecoratorInsert(id, ev)
             /\ calls' = calls \cup {Call(id, c, a)}
             /\ armed' = IF dtimeout # {} THEN armed \cup {id} ELSE armed
        ELSE /\ calls' = calls \cup {Call(0, c, a)}
             /\ UNCHANGED <<log, timers, armed>>

\* one iteration of the loop of ProcessRequests
ProcessRequests(cap, outcomes) ==
    /\ ~ppanic
    /\ ~closed
    /\ ppos < dpos
    /\ LET id == ppos + 1
           ev == log[id]
           rtr == IF ev.cls = "configuration" /\ ev.retries >= 0
                  THEN ev.retries ELSE retries
           reqs == ProcessRequestsMap(requests, rtr, id, ev)
       IN  /\ ProcessDispatches(requests, ev) => Room(cap) >= 2
           /\ ppos' = id
           /\ retries' = rtr
           /\ timeout' = IF ev.cls = "configuration" /\ ev.timeout >= 0
                         THEN ev.timeout ELSE timeout
           /\ ppanic' = IndexPanics(requests, ev)
           /\ requests' = reqs
           /\ IF ProcessDispatches(requests, ev)
              THEN \E stored \in outcomes :
                      startApiCall(IF ev.cls = "request" THEN id ELSE ev.caus,
                                   NextAttempt(reqs[IF ev.cls = "request"
                                                    THEN id ELSE ev.caus]),
                                   stored)
              ELSE UNCHANGED <<log, timers, calls, armed>>
    /\ UNCHANGED <<dtimeout, dpos, obsVars, storeVars>>

\* processMain: the processor is stopped and started again, ProcessRequests
\* is called with lastProcessedID = s; the timers and the goroutines of the
\* process that ended are gone, the new one has a new decorator and the
\* state it sets up before its loop
ProcessRestart ==
    /\ \E s \in 0..Len(log) :
          /\ ppos' = s
          /\ dpos' = s
    /\ retries' = 0
    /\ timeout' = DefaultTimeout
    /\ requests' = <<>>
    /\ ppanic' = FALSE
    /\ dtimeout' = {}
    /\ timers' = {}
    /\ calls' = {}
    /\ UNCHANGED <<log, obsVars, armed, storeVars>>

\* the goroutine of startApiCall: mock_api.ProcessRequest returned a
\* response, an error, or neither
UpstreamReturn(cap) ==
    \E c \in calls, outcome \in {"response", "error", "silent"} :
        /\ outcome # "silent" => Room(cap) >= 1
        /\ calls' = calls \ {c}
        /\ log' = CASE Blocked -> log
                    [] outcome = "response" ->
                         Append(log, APIResponseEvent(c.attempt, c.caus))
                    [] outcome = "error" ->
                         Append(log, APIFailureEvent(c.attempt, c.caus))
                    [] outcome = "silent" -> log
        /\ timers' = CASE Blocked -> timers
                       [] outcome = "response" ->
                         DecoratorInsert(Len(log) + 1, APIResponseEvent(c.attempt, c.caus))
                       [] outcome = "error" ->
                         DecoratorInsert(Len(log) + 1, APIFailureEvent(c.attempt, c.caus))
                       [] outcome = "silent" -> timers
        /\ UNCHANGED <<dtimeout, dpos, procVars, obsVars, armed, storeVars>>

(* ------------------------------ shutdown ------------------------------ *)
\* the context made by signal.NotifyContext is cancelled
Cancel ==
    /\ ~cancelled
    /\ cancelled' = TRUE
    /\ UNCHANGED <<log, dtimeout, dpos, timers, calls, procVars, obsVars, armed,
                   closed, cold, posts, auxVars, mongoVars, followVars, pgVars>>

\* finalizeEventStore: Close on the store, which sets its error state
Close ==
    /\ ~closed
    /\ closed' = TRUE
    /\ UNCHANGED <<log, dtimeout, dpos, timers, calls, procVars, obsVars, armed,
                   cancelled, cold, posts, auxVars, mongoVars, followVars, pgVars>>

(* ----------------------------- cold start ----------------------------- *)
\* ProcessRequests is called with lastProcessedID = the id the running
\* processor has just consumed: the state it sets up before its loop
ColdStart ==
    /\ cold = {}
    /\ ~ppanic
    /\ cold' = {[start |-> ppos, retries |-> 0, timeout |-> DefaultTimeout,
                 requests |-> <<>>]}
    /\ UNCHANGED <<log, dtimeout, dpos, timers, calls, procVars, obsVars, armed,
                   cancelled, closed, posts, auxVars, mongoVars, followVars, pgVars>>

(* --------------------------- request observer ------------------------- *)
\* the observer without the check for state_pending in its timeout case
WatchMark_NoPendingCheck(att, ev) ==
    CASE ev.cls = "api-request"  -> [att EXCEPT ![ev.attempt + 1] = "pending"]
      [] ev.cls = "api-response" -> [att EXCEPT ![ev.attempt + 1] = "success"]
      [] ev.cls = "api-failure"  -> [att EXCEPT ![ev.attempt + 1] = "failure"]
      [] ev.cls = "api-timeout"  -> [att EXCEPT ![ev.attempt + 1] = "timeout"]

\* the attempts of the located request after WatchRequests handled ev
WatchMark(att, ev) ==
    CASE ev.cls = "api-request"  -> [att EXCEPT ![ev.attempt + 1] = "pending"]
      [] ev.cls = "api-response" -> [att EXCEPT ![ev.attempt + 1] = "success"]
      [] ev.cls = "api-failure"  -> [att EXCEPT ![ev.attempt + 1] = "failure"]
      [] ev.cls = "api-timeout"  ->
            IF att[ev.attempt + 1] = "pending"
            THEN [att EXCEPT ![ev.attempt + 1] = "timeout"]
            ELSE att

\* watchRequestsMain with --start-after: WatchRequests is called with
\* lastProcessedID = s, the id of an event of the store, and follows the
\* events after it with the state it sets up before its loop
WatchStartAfter ==
    /\ opos = 0
    /\ \E s \in 1..Len(log) : opos' = s
    /\ UNCHANGED <<oretries, orequests, opanic, log, dtimeout, dpos, timers, calls,
                   procVars, armed, storeVars>>

\* an observer that dispatches like the processor: it inserts an APIRequest
\* event for every Request event it takes
WatchRequests_Dispatching ==
    /\ ~opanic
    /\ opos < Len(log)
    /\ LET id == opos + 1
           ev == log[id]
       IN  /\ opos' = id
           /\ orequests' = IF ev.cls = "request"
                           THEN (id :> newRequestData(oretries)) @@ orequests
                           ELSE orequests
           /\ log' = IF ev.cls = "request"
                     THEN Append(log, APIRequestEvent(0, id))
                     ELSE log
    /\ UNCHANGED <<oretries, opanic, dtimeout, dpos, timers, calls, procVars,
                   armed, storeVars>>

\* one iteration of the loop of WatchRequests
WatchRequests ==
    /\ ~opanic
    /\ opos < Len(log)
    /\ LET id == opos + 1
           ev == log[id]
           rtr == IF ev.cls = "configuration" /\ ev.retries >= 0
                  THEN ev.retries ELSE oretries
       IN  /\ opos' = id
           /\ oretries' = rtr
           /\ opanic' = IndexPanics(orequests, ev)
           /\ orequests' =
                IF ev.cls = "request"
                THEN (id :> newRequestData(rtr)) @@ orequests
                ELSE IF ev.cls \in APIClasses /\ Located(orequests, ev)
                          /\ InRange(orequests[ev.caus], ev.attempt)
                THEN [orequests EXCEPT ![ev.caus] = WatchMark(orequests[ev.caus], ev)]
                ELSE orequests
    /\ UNCHANGED <<log, dtimeout, dpos, timers, calls, procVars, armed, storeVars>>

(* ------------------------- MongoDB event store ------------------------ *)
IDs(evs) == {evs[i].id : i \in 1..Len(evs)}

MaxID(evs) == IF evs = <<>> THEN 0 ELSE CHOOSE m \in IDs(evs) : \A j \in IDs(evs) : j <= m

\* findNextID: 1 on an empty collection, else the highest _id plus one
findNextID(evs) == IF evs = <<>> THEN 1 ELSE MaxID(evs) + 1

\* a collection whose _id values are not checked for uniqueness
MIDCollides_NoIndex(evs, id) == FALSE

\* the unique index _id_ refuses the document
MIDCollides(evs, id) == \E i \in 1..Len(evs) : evs[i].id = id

\* a collection without the index unique_external_uuid_constraint
MUUIDCollides_NoIndex(evs, u) == FALSE

\* a unique index on external_uuid that is not partial, over documents
\* that all carry the field
MUUIDCollides_NotPartial(evs, u) == \E i \in 1..Len(evs) : evs[i].uuid = u

\* the partial unique index unique_external_uuid_constraint refuses the
\* document; uuidAsDBValue writes uuid.Nil as null, which the index skips
MUUIDCollides(evs, u) == u # 0 /\ \E i \in 1..Len(evs) : evs[i].uuid = u

\* retrieveNext: FindOne without a sort, the first match in natural order
retrieveNext(evs, id) ==
    LET Match(e) == IF id = 0 THEN TRUE ELSE e.id > id
        found == SelectSeq(evs, Match)
    IN  IF found = <<>> THEN {} ELSE {found[1]}

Returned(t, res, id) ==
    [n |-> icall[t].n, uuid |-> icall[t].uuid, start |-> icall[t].start,
     fresh |-> icall[t].fresh, retried |-> icall[t].retried, res |-> res, id |-> id]

\* Insert, up to and including the first findNextID
MInsertBegin(maxInserts) ==
    \E t \in Tasks, u \in UUIDs :
        /\ ipc[t] = "idle"
        /\ mcount < maxInserts
        /\ mcount' = mcount + 1
        /\ ipc' = [ipc EXCEPT ![t] = "insert"]
        /\ ienv' = [ienv EXCEPT ![t] = [id |-> findNextID(mevents), uuid |-> u]]
        /\ icall' = [icall EXCEPT ![t] =
                        [n |-> mcount + 1, uuid |-> u, start |-> MaxID(mevents),
                         fresh |-> ~MUUIDCollides(mevents, u), retried |-> FALSE]]
        /\ UNCHANGED <<mevents, mnotes, mcalls, followVars, brokerVars, pgVars>>

\* Insert: s.events.InsertOne stores the document
MInsertOne ==
    \E t \in Tasks :
        /\ ipc[t] = "insert"
        /\ ~MIDCollides(mevents, ienv[t].id)
        /\ ~MUUIDCollides(mevents, ienv[t].uuid)
        /\ mevents' = Append(mevents, ienv[t])
        /\ ipc' = [ipc EXCEPT ![t] = "notify"]
        /\ UNCHANGED <<mnotes, ienv, icall, mcalls, mcount, followVars, brokerVars, pgVars>>

\* Insert: InsertOne fails with E11000 on unique_external_uuid_constraint
MInsertDuplicateUUID ==
    \E t \in Tasks :
        /\ ipc[t] = "insert"
        /\ MUUIDCollides(mevents, ienv[t].uuid)
        /\ ipc' = [ipc EXCEPT ![t] = "idle"]
        /\ mcalls' = mcalls \cup {Returned(t, "DuplicateEventUUID", 0)}
        /\ UNCHANGED <<mevents, mnotes, ienv, icall, mcount, followVars, brokerVars, pgVars>>

\* Insert: InsertOne fails with E11000 on _id_, and findNextID is asked again
MInsertDuplicateID ==
    \E t \in Tasks :
        /\ ipc[t] = "insert"
        /\ MIDCollides(mevents, ienv[t].id)
        /\ IF findNextID(mevents) # ienv[t].id
           THEN /\ ienv' = [ienv EXCEPT ![t].id = findNextID(mevents)]
                /\ icall' = [icall EXCEPT ![t].retried = TRUE]
                /\ UNCHANGED <<ipc, mcalls>>
           ELSE /\ ipc' = [ipc EXCEPT ![t] = "idle"]
                /\ mcalls' = mcalls \cup {Returned(t, "error", 0)}
                /\ UNCHANGED <<ienv, icall>>
        /\ UNCHANGED <<mevents, mnotes, mcount, followVars, brokerVars, pgVars>>

\* Insert: s.notifications.InsertOne, and the envelope is returned
MInsertNotify ==
    \E t \in Tasks :
        /\ ipc[t] = "notify"
        /\ mnotes' = Append(mnotes, ienv[t].id)
        /\ ipc' = [ipc EXCEPT ![t] = "idle"]
        /\ mcalls' = mcalls \cup {Returned(t, "ok", ienv[t].id)}
        /\ UNCHANGED <<mevents, ienv, icall, mcount, followVars, brokerVars, pgVars>>

\* FollowEvents(startAfter): RetrieveOne checks a nonzero startAfter, then
\* FollowNotifications opens its tailable cursor; when RetrieveOne finds no
\* document its error is dropped, s.err stays as it is and the channel is
\* closed
MFollowEvents ==
    \E s \in 0..FollowInserts :
        /\ fpc = "off"
        /\ fstart' = s
        /\ fid' = s
        /\ fpc' = IF s # 0 /\ ~MIDCollides(mevents, s) THEN "closed" ELSE "query"
        /\ UNCHANGED <<fcur, fout, mongoVars, brokerVars, pgVars>>

\* FollowEvents: retrieveNext, then emit the envelope or wait
MFollowNext ==
    /\ fpc = "query"
    /\ IF retrieveNext(mevents, fid) = {}
       THEN /\ fpc' = "wait"
            /\ UNCHANGED <<fid, fout>>
       ELSE \E e \in retrieveNext(mevents, fid) :
                /\ fout' = Append(fout, e.id)
                /\ fid' = e.id
                /\ UNCHANGED fpc
    /\ UNCHANGED <<fcur, fstart, mongoVars, brokerVars, pgVars>>

\* FollowEvents: a notification arrives on nch
MFollowWake ==
    /\ fpc = "wait"
    /\ fcur < Len(mnotes)
    /\ fcur' = fcur + 1
    /\ fpc' = "query"
    /\ UNCHANGED <<fid, fstart, fout, mongoVars, brokerVars, pgVars>>

(* ---------------------------- REST ingress ---------------------------- *)
\* postRequest without the comparison with DuplicateEventUUID
StatusOf_NoConflict(res) == IF res = "ok" THEN 201 ELSE 500

\* postRequest: the HTTP status for the result of store.Insert
StatusOf(res) ==
    CASE res = "ok" -> 201
      [] res = "DuplicateEventUUID" -> 409
      [] OTHER -> 500

\* Insert: InsertOne fails with an error that is not a write exception
MInsertError ==
    \E t \in Tasks :
        /\ ipc[t] = "insert"
        /\ ipc' = [ipc EXCEPT ![t] = "idle"]
        /\ mcalls' = mcalls \cup {Returned(t, "error", 0)}
        /\ UNCHANGED <<mevents, mnotes, ienv, icall, mcount, followVars, brokerVars, pgVars>>

\* postRequest: uuid.FromStringOrNil gives uuid.Nil, or the body does not
\* bind; 400 is answered
PostRequestBad ==
    \E u \in UUIDs, body \in BOOLEAN :
        /\ u = 0 \/ ~body
        /\ Cardinality(posts) + mcount < MaxPosts
        /\ posts' = posts \cup {[n |-> 0, uuid |-> u, body |-> body, status |-> 400]}
        /\ UNCHANGED <<log, dtimeout, dpos, timers, calls, procVars, obsVars, armed,
                       cancelled, closed, cold, auxVars, mongoVars, followVars, pgVars>>

\* postRequest: store.Insert is called with the UUID of the path
PostRequestInsert ==
    /\ MInsertBegin(MaxPosts - Cardinality(posts))
    /\ \A t \in Tasks : ipc'[t] # ipc[t] => icall'[t].uuid # 0

\* postRequest: the answers given so far; the one to a returned Insert is
\* the status for its result
Answers ==
    posts \cup {[n |-> c.n, uuid |-> c.uuid, body |-> TRUE, status |-> StatusOf(c.res)] :
                    c \in mcalls}

(* ------------------------ PostgreSQL event store ---------------------- *)
\* the ids a query sees: the rows of committed transactions
PgVisible(rows) == {rows[i].id : i \in {k \in 1..Len(rows) : rows[k].committed}}

\* SELECT ... FROM events WHERE id > $1, answered by a sequential scan:
\* the matching rows in the order of the heap
PgSelectHeap(rows, after) ==
    LET Match(r) == r.committed /\ r.id > after
        found == SelectSeq(rows, Match)
    IN  [i \in 1..Len(found) |-> found[i].id]

RECURSIVE Ascending(_)
Ascending(ids) ==
    IF ids = {} THEN <<>>
    ELSE LET m == CHOOSE x \in ids : \A y \in ids : x <= y
         IN  <<m>> \o Ascending(ids \ {m})

\* the same query answered by a scan of the primary key index
PgSelectIndex(rows, after) == Ascending({id \in PgVisible(rows) : id > after})

\* Insert with an external UUID: not implemented, nothing is stored
PgInsertUUID ==
    \E t \in Tasks, u \in UUIDs \ {0} :
        /\ pgpc[t] = "idle"
        /\ pgcount < FollowInserts + 1
        /\ pgcount' = pgcount + 1
        /\ pgcalls' = pgcalls \cup {[n |-> pgcount + 1, uuid |-> u, res |-> "error", id |-> 0]}
        /\ UNCHANGED <<pgseq, pgrows, pgpc, pgid, pgfollow, brokerVars, mongoVars, followVars>>

\* Insert: the INSERT statement evaluates the default of the SERIAL column,
\* nextval of the sequence
PgInsertNextval ==
    \E t \in Tasks :
        /\ pgpc[t] = "idle"
        /\ pgcount < FollowInserts + 1
        /\ pgseq < FollowInserts
        /\ pgcount' = pgcount + 1
        /\ pgseq' = pgseq + 1
        /\ pgid' = [pgid EXCEPT ![t] = [n |-> pgcount + 1, id |-> pgseq + 1]]
        /\ pgpc' = [pgpc EXCEPT ![t] = "nextval"]
        /\ UNCHANGED <<pgrows, pgcalls, pgfollow, brokerVars, mongoVars, followVars>>

\* Insert: the INSERT statement writes the row; it is not yet committed
PgInsertRow ==
    \E t \in Tasks :
        /\ pgpc[t] = "nextval"
        /\ pgrows' = Append(pgrows, [id |-> pgid[t].id, committed |-> FALSE, live |-> FALSE])
        /\ pgpc' = [pgpc EXCEPT ![t] = "written"]
        /\ UNCHANGED <<pgseq, pgid, pgcalls, pgcount, pgfollow, brokerVars, mongoVars, followVars>>

\* Insert: the statement's transaction commits, the row becomes visible, the
\* trigger's pg_notify reaches the listening connection, and the id is returned
PgInsertCommit ==
    \E t \in Tasks :
        /\ pgpc[t] = "written"
        /\ pgrows' = [i \in 1..Len(pgrows) |->
                        IF pgrows[i].id = pgid[t].id
                        THEN [pgrows[i] EXCEPT !.committed = TRUE, !.live = gpc # "off"]
                        ELSE pgrows[i]]
        /\ gqueue' = IF gpc \in {"query", "rows", "wait"} THEN gqueue + 1 ELSE gqueue
        /\ pgpc' = [pgpc EXCEPT ![t] = "idle"]
        /\ pgcalls' = pgcalls \cup {[n |-> pgid[t].n, uuid |-> 0, res |-> "ok", id |-> pgid[t].id]}
        /\ UNCHANGED <<pgseq, pgid, pgcount, gpc, gafter, gstart, grows, gout,
                       brokerVars, mongoVars, followVars>>

\* FollowEvents(startAfter): the connection is made, the goroutine started
PgFollowEvents ==
    \E s \in 0..FollowInserts :
        /\ gpc = "off"
        /\ gpc' = "listen"
        /\ gstart' = s
        /\ gafter' = s
        /\ UNCHANGED <<grows, gqueue, gout, pgstore, brokerVars, mongoVars, followVars>>

\* FollowEvents: LISTEN notification
PgFollowListen ==
    /\ gpc = "listen"
    /\ gpc' = "query"
    /\ UNCHANGED <<gafter, gstart, grows, gqueue, gout, pgstore, brokerVars, mongoVars, followVars>>

\* FollowEvents: the SELECT without ORDER BY, in either order the planner
\* can produce
PgFollowQuery ==
    /\ gpc = "query"
    /\ grows' \in {PgSelectHeap(pgrows, gafter), PgSelectIndex(pgrows, gafter)}
    /\ gpc' = "rows"
    /\ UNCHANGED <<gafter, gstart, gqueue, gout, pgstore, brokerVars, mongoVars, followVars>>

\* FollowEvents: rows.Next, the envelope is emitted and startAfter moved
PgFollowRow ==
    /\ gpc = "rows"
    /\ IF grows = <<>>
       THEN /\ gpc' = "wait"
            /\ UNCHANGED <<gafter, grows, gout>>
       ELSE /\ gout' = Append(gout, Head(grows))
            /\ gafter' = Head(grows)
            /\ grows' = Tail(grows)
            /\ UNCHANGED gpc
    /\ UNCHANGED <<gstart, gqueue, pgstore, brokerVars, mongoVars, followVars>>

\* FollowEvents: WaitForNotification returns a queued notification
PgFollowWake ==
    /\ gpc = "wait"
    /\ gqueue > 0
    /\ gqueue' = gqueue - 1
    /\ gpc' = "query"
    /\ UNCHANGED <<gafter, gstart, grows, gout, pgstore, brokerVars, mongoVars, followVars>>

\* LoadEvents(startAfter): the connection is made and the goroutine runs
\* the SELECT without ORDER BY, in either order the planner can produce
PgLoadEvents ==
    \E s \in 0..FollowInserts :
        /\ lpc = "off"
        /\ lpc' = "rows"
        /\ lstart' = s
        /\ lsnap' = {id \in PgVisible(pgrows) : id > s}
        /\ lrows' \in {PgSelectHeap(pgrows, s), PgSelectIndex(pgrows, s)}
        /\ UNCHANGED <<lout, pureVars, errVars, moreVars, log, dtimeout, dpos, timers, calls, procVars,
                       obsVars, armed, cancelled, closed, cold, posts, mongoVars,
                       followVars, pgVars>>

\* LoadEvents: rows.Next, the envelope is emitted; after the last row the
\* channel is closed
PgLoadRow ==
    /\ lpc = "rows"
    /\ IF lrows = <<>>
       THEN /\ lpc' = "closed"
            /\ UNCHANGED <<lrows, lout>>
       ELSE /\ lout' = Append(lout, Head(lrows))
            /\ lrows' = Tail(lrows)
            /\ UNCHANGED lpc
    /\ UNCHANGED <<lstart, lsnap, pureVars, errVars, moreVars, log, dtimeout, dpos, timers, calls,
                   procVars, obsVars, armed, cancelled, closed, cold, posts,
                   mongoVars, followVars, pgVars>>

(* ----------------------- error state of the stores ------------------- *)
Drivers == {"mongodb", "postgresql"}

\* the store is made by the switch on eventStoreDriver
InitClosed ==
    /\ BrokerInit /\ MongoInit /\ PgInit
    /\ svec = <<"initial">> /\ sres = "none"
    /\ lpc = "off" /\ lstart = 0 /\ lsnap = {} /\ lrows = <<>> /\ lout = <<>>
    /\ ErrInit
    /\ driver \in Drivers

Result(res, id) == [res |-> res, id |-> id]

\* a Close that leaves the error state alone
MongoClose_NoError(err) == err

\* MongoDBEventStore.Close: s.err after the call
MongoClose(err) == IF err # "nil" THEN err ELSE "closed"

\* PostgreSQLEventStore.Close: s.err after the call
PgClose(err) == "closed"

\* MongoDBEventStore.ResolveUUID
MResolveUUID(evs, err, u) ==
    LET found == {i \in 1..Len(evs) : evs[i].uuid = u}
    IN  IF u = 0 THEN Result("provided external UUID is null", 0)
        ELSE IF err # "nil" THEN Result(err, 0)
        ELSE IF found = {} THEN Result("document not found", 0)
        ELSE Result("ok", evs[CHOOSE i \in found : \A j \in found : i <= j].id)

\* MongoDBEventStore.RetrieveOne
MRetrieveOne(evs, err, id) ==
    IF err # "nil" THEN Result(err, 0)
    ELSE IF id = 0 THEN Result("provided document ID is null", 0)
    ELSE IF ~MIDCollides(evs, id) THEN Result("document not found", 0)
    ELSE Result("ok", id)

\* MongoDBEventStore.LoadEvents, FollowEvents, FollowNotifications: what the
\* call returns, a channel or s.err
MStream(err) == IF err # "nil" THEN Result(err, 0) ELSE Result("ok", 0)

\* PostgreSQLEventStore.ResolveUUID
PgResolveUUID(u) == Result("UUID support not implemented", 0)

\* PostgreSQLEventStore.RetrieveOne
PgRetrieveOne(rows, err, id) ==
    IF id = 0 THEN Result("provided document ID is null", 0)
    ELSE IF err # "nil" THEN Result(err, 0)
    ELSE IF id \notin PgVisible(rows) THEN Result("no rows in result set", 0)
    ELSE Result("ok", id)

\* PostgreSQLEventStore.LoadEvents, FollowEvents, FollowNotifications
PgStream(err) == IF err # "nil" THEN Result(err, 0) ELSE Result("ok", 0)

Ops == {"resolve_uuid", "retrieve_one", "load_events", "follow_events",
        "follow_notifications"}

\* what a call of op returns from a store in error state err
StoreCallResult(op, arg) ==
    IF driver = "mongodb"
    THEN CASE op = "resolve_uuid" -> MResolveUUID(mevents, merr, arg)
           [] op = "retrieve_one" -> MRetrieveOne(mevents, merr, arg)
           [] OTHER -> MStream(merr)
    ELSE CASE op = "resolve_uuid" -> PgResolveUUID(arg)
           [] op = "retrieve_one" -> PgRetrieveOne(pgrows, pgerr, arg)
           [] OTHER -> PgStream(pgerr)

\* a call on the store other than Insert; on a store without an error state
\* the connection or the query can fail, which sets s.err
StoreCall ==
    \E op \in Ops, arg \in 0..MaxUUIDs, fail \in BOOLEAN :
        LET err == IF driver = "mongodb" THEN merr ELSE pgerr
            at == IF driver = "mongodb" THEN mclosedAt ELSE pgclosedAt
            io == fail /\ err = "nil" /\ StoreCallResult(op, arg).res = "ok"
            res == IF io THEN Result("io", 0) ELSE StoreCallResult(op, arg)
        IN  /\ slast' = [op |-> op, closed |-> at >= 0, res |-> res.res]
            /\ merr' = IF io /\ driver = "mongodb" THEN "io" ELSE merr
            /\ pgerr' = IF io /\ driver = "postgresql" /\ op # "retrieve_one"
                        THEN "io" ELSE pgerr
            /\ UNCHANGED <<mclosedAt, pgclosedAt, driver, pureVars, loadVars, moreVars, log,
                           dtimeout, dpos, timers, calls, procVars, obsVars, armed,
                           cancelled, closed, cold, posts, mongoVars, followVars,
                           pgVars>>

\* no goroutine of the process has panicked
MAlive == \A t \in Tasks : ipc[t] # "panic"

\* Close on the MongoDB store
MClose ==
    /\ driver = "mongodb"
    /\ MAlive
    /\ mclosedAt = -1
    /\ mclosedAt' = mcount
    /\ merr' = MongoClose(merr)
    /\ UNCHANGED <<pgerr, pgclosedAt, slast, driver, pureVars, loadVars, moreVars, log,
                   dtimeout, dpos, timers, calls, procVars, obsVars, armed,
                   cancelled, closed, cold, posts, mongoVars, followVars, pgVars>>

\* Insert on the MongoDB store: connect and the look at s.err, then the
\* call goes on or returns s.err
MInsertCall(maxInserts) ==
    /\ driver = "mongodb"
    /\ MAlive
    /\ IF merr = "nil"
       THEN /\ MInsertBegin(maxInserts)
            /\ \A t \in Tasks : t > ClosedTasks => ipc'[t] = ipc[t]
       ELSE /\ mcount < maxInserts + 1
            /\ \E u \in UUIDs :
                 mcalls' = mcalls \cup
                    {[n |-> mcount + 1, uuid |-> u, start |-> MaxID(mevents),
                      fresh |-> ~MUUIDCollides(mevents, u), retried |-> FALSE,
                      res |-> merr, id |-> 0]}
            /\ mcount' = mcount + 1
            /\ UNCHANGED <<mevents, mnotes, ipc, ienv, icall, followVars,
                           brokerVars, pgVars>>

\* an Insert that was running when Close set s.events and s.notifications
\* to nil calls a method on the nil collection: the goroutine panics
MInsertNilPanic ==
    \E t \in Tasks :
        /\ MAlive
        /\ mclosedAt >= 0
        /\ ipc[t] \in {"insert", "notify"}
        /\ ipc' = [ipc EXCEPT ![t] = "panic"]
        /\ UNCHANGED <<mevents, mnotes, ienv, icall, mcalls, mcount, followVars,
                       brokerVars, pgVars>>

\* Close on the PostgreSQL store
PgStoreClose ==
    /\ driver = "postgresql"
    /\ pgclosedAt = -1
    /\ pgclosedAt' = pgcount
    /\ pgerr' = PgClose(pgerr)
    /\ UNCHANGED <<merr, mclosedAt, slast, driver, pureVars, loadVars, moreVars, log,
                   dtimeout, dpos, timers, calls, procVars, obsVars, armed,
                   cancelled, closed, cold, posts, mongoVars, followVars, pgVars>>

\* Insert on the PostgreSQL store with uuid.Nil: connect gives a connection,
\* or nil when s.err is set
PgInsertCall ==
    /\ driver = "postgresql"
    /\ IF pgerr = "nil"
       THEN /\ PgInsertNextval
            /\ pgcount < ClosedInserts
            /\ \A t \in Tasks : t > ClosedTasks => pgpc'[t] = pgpc[t]
       ELSE /\ pgcount < ClosedInserts + 1
            /\ pgcount' = pgcount + 1
            /\ pgcalls' = pgcalls \cup
                    {[n |-> pgcount + 1, uuid |-> 0, res |-> pgerr, id |-> 0]}
            /\ UNCHANGED <<pgseq, pgrows, pgpc, pgid, pgfollow, brokerVars,
                           mongoVars, followVars>>

(* ------------------- I/O errors while streaming ----------------------- *)
\* FollowEvents: the FindOne of retrieveNext fails, retrieveNext sets s.err
\* and the goroutine returns, closing the channel
MFollowFail ==
    /\ fpc = "query"
    /\ fpc' = "closed"
    /\ merr' = "io"
    /\ fio' = TRUE
    /\ UNCHANGED <<fid, fcur, fstart, fout, mongoVars, pgVars, coreVars, pureVars,
                   loadVars, pgerr, mclosedAt, pgclosedAt, slast, driver, pret, npc,
                   rlast>>

\* FollowNotifications: cursor.Next returns false because the tailable
\* cursor failed; cursor.Err is not looked at, nch is closed, and FollowEvents
\* returns on the nil notification
MCursorFail ==
    /\ fpc = "wait"
    /\ fpc' = "closed"
    /\ fio' = TRUE
    /\ UNCHANGED <<fid, fcur, fstart, fout, mongoVars, pgVars, coreVars, pureVars,
                   loadVars, errVars, pret, npc, rlast>>

\* the stream is closed, the pass-through of the decorator closes its
\* channel, the loop of ProcessRequests ends: return store.Error()
ProcessRequestsReturn ==
    /\ fpc = "closed"
    /\ pret = "running"
    /\ pret' = merr
    /\ UNCHANGED <<fio, npc, rlast, followVars, mongoVars, pgVars, coreVars,
                   pureVars, loadVars, errVars>>

(* ------------------- cancelling a stream ------------------------------ *)
\* what the steps of the two goroutines of FollowEvents leave alone
FollowFrame == <<mongoVars, pgVars, coreVars, pureVars, loadVars, pgerr, mclosedAt,
                 pgclosedAt, slast, driver, streamVars, rlast>>

\* FollowEvents(ctx, startAfter): the goroutine checks a nonzero startAfter
\* and calls FollowNotifications, which starts the goroutine of the cursor
FollowEventsStart ==
    \E s \in 0..CancelInserts :
        /\ fpc = "off"
        /\ ~cancelled
        /\ fstart' = s
        /\ fid' = s
        /\ IF s # 0 /\ ~MIDCollides(mevents, s)
           THEN fpc' = "closed" /\ UNCHANGED npc
           ELSE fpc' = "query" /\ npc' = "next"
        /\ UNCHANGED <<fcur, fout, merr, FollowFrame>>

\* FollowEvents: retrieveNext(ctx, id); with ctx done the FindOne fails,
\* s.err is set and the goroutine returns
FollowEventsRetrieve ==
    /\ fpc = "query"
    /\ IF cancelled
       THEN fpc' = "closed" /\ merr' = "context canceled"
       ELSE /\ fpc' = IF retrieveNext(mevents, fid) = {} THEN "wait" ELSE "send"
            /\ UNCHANGED merr
    /\ UNCHANGED <<fid, fcur, fstart, fout, npc, FollowFrame>>

\* FollowEvents: out <- envelope, taken by the consumer, which ranges over
\* the channel
FollowEventsSend ==
    /\ fpc = "send"
    /\ \E e \in retrieveNext(mevents, fid) :
         /\ fout' = Append(fout, e.id)
         /\ fid' = e.id
    /\ fpc' = "query"
    /\ UNCHANGED <<fcur, fstart, npc, merr, FollowFrame>>

\* FollowEvents: the select takes a notification from nch
FollowEventsSelect ==
    /\ fpc = "wait"
    /\ npc = "send"
    /\ fpc' = "query"
    /\ npc' = "next"
    /\ UNCHANGED <<fid, fcur, fstart, fout, merr, FollowFrame>>

\* FollowEvents: the select takes ctx.Done, or the nil notification of the
\* closed nch, and the goroutine returns
FollowEventsDone ==
    /\ fpc = "wait"
    /\ cancelled \/ npc = "done"
    /\ fpc' = "closed"
    /\ UNCHANGED <<fid, fcur, fstart, fout, npc, merr, FollowFrame>>

\* FollowNotifications: cursor.Next(ctx) gives the next document, which is
\* then sent with out <- &note, or false once ctx is done
FollowNotificationsNext ==
    /\ npc = "next"
    /\ \/ /\ fcur < Len(mnotes)
          /\ fcur' = fcur + 1
          /\ npc' = "send"
       \/ /\ cancelled
          /\ npc' = "done"
          /\ UNCHANGED fcur
    /\ UNCHANGED <<fpc, fid, fstart, fout, merr, FollowFrame>>

(* --------------------------- ResolveUUID ------------------------------ *)
\* getRequest, or any client of the store: ResolveUUID(ctx, u)
MResolveCall ==
    \E u \in UUIDs :
        /\ rlast' = [uuid |-> u,
                     carried |-> \E i \in 1..Len(mevents) : mevents[i].uuid = u,
                     res |-> MResolveUUID(mevents, merr, u).res,
                     id |-> MResolveUUID(mevents, merr, u).id]
        /\ UNCHANGED <<streamVars, npc, followVars, mongoVars, pgVars, coreVars,
                       pureVars, loadVars, errVars>>

(* ------------------------- logging decorator -------------------------- *)
\* what the steps of the logging decorator leave alone
WrapFrame == <<svec, sres, loadVars, errVars, moreVars, coreVars, mongoVars,
               followVars, pgVars>>

CallResult(val, err) == [val |-> val, err |-> err]

CallOps == {"ParseEventID", "Error", "Close", "Insert", "RetrieveOne"}

StreamOps == {"LoadEvents", "FollowNotifications", "FollowEvents"}

\* what the MongoDB and the PostgreSQL store return from a call: a value
\* with a nil error, or no value (nil, 0) with an error
WrappedResults(op) ==
    CASE op = "ParseEventID" -> {CallResult("id", "nil"), CallResult("none", "syntax")}
      [] op \in {"Error", "Close"} -> {CallResult("none", "nil"), CallResult("none", "failed")}
      [] op = "Insert" -> {CallResult("env", "nil"), CallResult("none", "failed"),
                           CallResult("none", "duplicate event UUID")}
      [] op = "RetrieveOne" -> {CallResult("env", "nil"), CallResult("none", "failed"),
                                CallResult("none", "document not found")}
      [] op \in StreamOps -> {CallResult("chan", "nil"), CallResult("none", "failed")}

\* a decorator that returns its own error for a failed call of the store
LoggingReturn_WrapError(op, r) ==
    IF r.err = "nil" THEN r ELSE CallResult(r.val, "logging: call failed")

\* what a method of LoggingDecoratorEventStore returns when the wrapped
\* store returned r: Insert and RetrieveOne call a method on the envelope
\* when err is nil, the streaming methods return their own channel res
LoggingReturn(op, r) ==
    IF op \in {"Insert", "RetrieveOne"} /\ r.err = "nil" /\ r.val = "none"
    THEN CallResult("panic", "panic")
    ELSE IF op \in StreamOps /\ r.err = "nil" THEN CallResult("chan", "nil")
    ELSE r

\* ParseEventID, Error, Close, Insert or RetrieveOne through the decorator
LoggingCall ==
    /\ \E op \in CallOps : \E r \in WrappedResults(op) :
          wcall' = [op |-> op, inner |-> r, outer |-> LoggingReturn(op, r)]
    /\ UNCHANGED <<wpc, whold, wclosed, wemit, wout, WrapFrame>>

\* LoadEvents, FollowNotifications or FollowEvents through the decorator:
\* on an error it returns what the store returned, otherwise it starts the
\* goroutine that copies the stream to res
LoggingStream ==
    /\ wpc = "off"
    /\ \E op \in StreamOps : \E r \in WrappedResults(op) :
          /\ wcall' = [op |-> op, inner |-> r, outer |-> LoggingReturn(op, r)]
          /\ wpc' = IF r.err = "nil" THEN "recv" ELSE "failed"
    /\ UNCHANGED <<whold, wclosed, wemit, wout, WrapFrame>>

\* for env := range stream: the goroutine of the wrapped store hands over
\* its next envelope, whichever it is
LoggingReceive ==
    /\ wpc = "recv"
    /\ ~wclosed
    /\ \E id \in (1..MaxStream) \ {wemit[i] : i \in 1..Len(wemit)} :
          /\ wemit' = Append(wemit, id)
          /\ whold' = {id}
    /\ wpc' = "send"
    /\ UNCHANGED <<wclosed, wout, wcall, WrapFrame>>

\* res <- env: the caller receives the envelope the goroutine holds
LoggingSend ==
    /\ wpc = "send"
    /\ \E id \in whold : wout' = Append(wout, id)
    /\ whold' = {}
    /\ wpc' = "recv"
    /\ UNCHANGED <<wclosed, wemit, wcall, WrapFrame>>

\* the goroutine of the wrapped store returns: close(out)
WrappedClose ==
    /\ wpc \in {"recv", "send"}
    /\ ~wclosed
    /\ wclosed' = TRUE
    /\ UNCHANGED <<wpc, whold, wemit, wout, wcall, WrapFrame>>

\* the range loop ends on the closed stream: defer close(res)
LoggingClose ==
    /\ wpc = "recv"
    /\ wclosed
    /\ wpc' = "closed"
    /\ UNCHANGED <<whold, wclosed, wemit, wout, wcall, WrapFrame>>

(* --------------------------- specifications -------------------------- *)
\* the processor with its decorator, the clients and the upstream
Broker(maxClients, maxRetries, cap, outcomes) ==
    \/ InsertConfiguration(maxClients, maxRetries, cap)
    \/ InsertRequest(maxClients, cap)
    \/ DecoratorFollow
    \/ TimerFire
    \/ ProcessRequests(cap, outcomes)
    \/ UpstreamReturn(cap)

Next == Broker(MaxClients, MaxRetries, MaxLog, {TRUE})

Spec == Init /\ [][Next]_vars

\* the processor and the observer following the same log
NextWatch ==
    \/ Broker(ObsClients, ObsRetries, ObsLog, {TRUE})
    \/ WatchRequests

SpecWatch == Init /\ [][NextWatch]_vars

\* tasks inserting into the MongoDB event store
MongoInsert(maxInserts) ==
    \/ MInsertBegin(maxInserts)
    \/ MInsertOne
    \/ MInsertDuplicateUUID
    \/ MInsertDuplicateID
    \/ MInsertNotify

NextMongo == MongoInsert(MaxInserts)

SpecMongo == Init /\ [][NextMongo]_vars

\* tasks inserting into the MongoDB event store while a reader follows it
NextMongoFollow ==
    \/ MongoInsert(FollowInserts)
    \/ MFollowEvents
    \/ MFollowNext
    \/ MFollowWake

SpecMongoFollow == Init /\ [][NextMongoFollow]_vars

\* tasks inserting into the PostgreSQL event store while a reader follows it
NextPg ==
    \/ PgInsertUUID
    \/ PgInsertNextval
    \/ PgInsertRow
    \/ PgInsertCommit
    \/ PgFollowEvents
    \/ PgFollowListen
    \/ PgFollowQuery
    \/ PgFollowRow
    \/ PgFollowWake

SpecPg == Init /\ [][NextPg]_vars

\* the processor with a store whose Insert can fail, a context that can be
\* cancelled and a store that can be closed
NextFault ==
    \/ Broker(FaultClients, FaultRetries, FaultLog, BOOLEAN)
    \/ Cancel
    \/ Close

SpecFault == Init /\ [][NextFault]_vars

\* the processor, and a second one started where the first one stands
NextCold == Broker(ObsClients, ObsRetries, ObsLog, {TRUE}) \/ ColdStart

SpecCold == Init /\ [][NextCold]_vars

\* one client at a time calls Insert on the MongoDB store, and one on the
\* PostgreSQL store (without a concurrent call no _id collision occurs)
NextEquiv ==
    \/ (\A t \in Tasks : ipc[t] = "idle") /\ MInsertBegin(FollowInserts)
    \/ MInsertOne
    \/ MInsertDuplicateUUID
    \/ MInsertNotify
    \/ (\A t \in Tasks : pgpc[t] = "idle") /\ PgInsertUUID
    \/ (\A t \in Tasks : pgpc[t] = "idle") /\ PgInsertNextval
    \/ PgInsertRow
    \/ PgInsertCommit

SpecEquiv == Init /\ [][NextEquiv]_vars

\* the REST ingress on the MongoDB store, answering concurrent requests
NextIngress ==
    \/ PostRequestBad
    \/ PostRequestInsert
    \/ MInsertOne
    \/ MInsertDuplicateUUID
    \/ MInsertDuplicateID
    \/ MInsertError
    \/ MInsertNotify

SpecIngress == Init /\ [][NextIngress]_vars

\* State() applied to every attempt vector
NextState == StateCall

SpecState == InitState /\ [][NextState]_vars

\* tasks inserting into the PostgreSQL event store while the log is loaded
NextPgLoad ==
    \/ PgInsertNextval
    \/ PgInsertRow
    \/ PgInsertCommit
    \/ PgLoadEvents
    \/ PgLoadRow

SpecPgLoad == Init /\ [][NextPgLoad]_vars

\* a store that is used and gets closed, also while an Insert is running;
\* the Insert calls come one after the other, so none meets a duplicate
NextClosed ==
    \/ MInsertCall(ClosedInserts)
    \/ MAlive /\ MInsertOne
    \/ MAlive /\ MInsertNotify
    \/ MInsertNilPanic
    \/ MClose
    \/ PgInsertCall
    \/ driver = "postgresql" /\ pgcount < ClosedInserts + 1 /\ PgInsertUUID
    \/ PgInsertRow
    \/ PgInsertCommit
    \/ PgStoreClose
    \/ StoreCall

SpecClosed == InitClosed /\ [][NextClosed]_vars

\* the processor following a MongoDB store whose queries can fail
NextStream ==
    \/ NextMongoFollow
    \/ MFollowFail
    \/ MCursorFail
    \/ ProcessRequestsReturn

SpecStream == Init /\ [][NextStream]_vars

\* a consumer following the MongoDB store with a context that is cancelled;
\* every goroutine that can take a step does so in the end
NextCancel ==
    \/ MongoInsert(CancelInserts)
    \/ FollowEventsStart
    \/ FollowEventsRetrieve
    \/ FollowEventsSend
    \/ FollowEventsSelect
    \/ FollowEventsDone
    \/ FollowNotificationsNext
    \/ Cancel

SpecCancel ==
    /\ Init /\ [][NextCancel]_vars
    /\ WF_vars(FollowEventsRetrieve)
    /\ WF_vars(FollowEventsSend)
    /\ WF_vars(FollowEventsSelect)
    /\ WF_vars(FollowEventsDone)
    /\ WF_vars(FollowNotificationsNext)

\* tasks inserting into the MongoDB event store while UUIDs are resolved
NextResolve ==
    \/ MongoInsert(ResolveInserts)
    \/ MResolveCall

SpecResolve == Init /\ [][NextResolve]_vars

\* the processor with its decorator, the clients and the upstream, with a
\* shorter log
NextRetry == Broker(RetryClients, RetryRetries, RetryLog, {TRUE})

SpecRetry == Init /\ [][NextRetry]_vars

\* the processor and the observer under fair scheduling: time.AfterFunc
\* runs its function, and the observer takes every envelope of its stream
NextSilent ==
    \/ Broker(SilentClients, 0, SilentLog, {TRUE})
    \/ WatchRequests

SpecSilent == Init /\ [][NextSilent]_vars /\ WF_vars(TimerFire) /\ WF_vars(WatchRequests)

\* the processor under fair scheduling: time.AfterFunc runs its function
NextTimeout == Broker(ObsClients, ObsRetries, ObsLog, {TRUE})

SpecTimeout == Init /\ [][NextTimeout]_vars /\ WF_vars(TimerFire)

\* the processor with its decorator, the upstream, and clients that also
\* use the CLI's insert command
NextCausation ==
    \/ Broker(CausClients, 0, CausLog, {TRUE})
    \/ InsertMain(CausClients, CausLog)

SpecCausation == Init /\ [][NextCausation]_vars

(* ------------------------ views of the log ---------------------------- *)

\* a stream of the logging decorator with a caller that keeps receiving,
\* and calls through the decorator
NextLogging ==
    \/ LoggingCall
    \/ LoggingStream
    \/ LoggingReceive
    \/ LoggingSend
    \/ WrappedClose
    \/ LoggingClose

SpecLogging ==
    Init /\ [][NextLogging]_vars /\ WF_vars(LoggingSend) /\ WF_vars(LoggingClose)

\* the processor under fair scheduling: its loop and the pass-through of
\* the decorator take every envelope, time.AfterFunc runs its function and
\* every upstream call returns
NextLive == Broker(LiveClients, 0, LiveLog, {TRUE})

SpecLive ==
    /\ Init /\ [][NextLive]_vars
    /\ WF_vars(DecoratorFollow) /\ WF_vars(ProcessRequests(LiveLog, {TRUE}))
    /\ WF_vars(TimerFire) /\ WF_vars(UpstreamReturn(LiveLog))

\* the processor, and an observer that is started at the head of the log or
\* after any event of it
NextLate ==
    \/ Broker(ObsClients, ObsRetries, ObsLog, {TRUE})
    \/ WatchStartAfter
    \/ WatchRequests

SpecLate == Init /\ [][NextLate]_vars

\* a processor that is stopped and started again at any event of the log;
\* every Configuration event has retries 0 or less
NextRestart ==
    \/ Broker(RestartClients, 0, RestartLog, {TRUE})
    \/ ProcessRestart

SpecRestart == Init /\ [][NextRestart]_vars

\* ids of the envelopes of class c for attempt a of request r
EventsOf(c, r, a) ==
    {i \in 1..Len(log) : log[i].cls = c /\ log[i].caus = r /\ log[i].attempt = a}

\* ids of the APIRequest envelopes caused by request r
AttemptsOf(r) == {i \in 1..Len(log) : log[i].cls = "api-request" /\ log[i].caus = r}

RequestIDs == {i \in 1..Len(log) : log[i].cls = "request"}

\* the retries value of the last Configuration event with retries >= 0
\* among the first n envelopes of the log, 0 if there is none
RetriesAt(n) ==
    LET cs == {i \in 1..n : log[i].cls = "configuration" /\ log[i].retries >= 0}
    IN  IF cs = {} THEN 0
        ELSE log[CHOOSE i \in cs : \A j \in cs : j <= i].retries

\* ProcessRequests has handled an envelope of class c for attempt a of r
Consumed(c, r, a) == \E i \in EventsOf(c, r, a) : i <= ppos

\* this step appends an APIRequest envelope caused by request r
Dispatches(r) ==
    /\ Len(log') = Len(log) + 1
    /\ log'[Len(log')].cls = "api-request"
    /\ log'[Len(log')].caus = r

(* ------------------------------ claims -------------------------------- *)
\* C1: the log holds at most one APIRequest event per (request, attempt),
\* under every interleaving of APIFailure(a) and APITimeout(a) with the
\* processor's insert of APIRequest(a+1).
C1_OneAPIRequestPerAttempt ==
    \A r \in RequestIDs : \A a \in 0..MaxRetries :
        Cardinality(EventsOf("api-request", r, a)) <= 1

\* C2: the number of APIRequest events caused by request r never exceeds
\* retries+1, retries being the value of the last Configuration event with
\* retries >= 0 before r in the log; and once attempt a = retries is marked
\* failed or timed out no further attempt of r is dispatched.
C2_AttemptsWithinBudget ==
    /\ [](\A r \in RequestIDs :
            Cardinality(AttemptsOf(r)) <= RetriesAt(r) + 1)
    /\ [][\A r \in DOMAIN requests :
            requests[r][Len(requests[r])] \in {"failure", "timeout"}
                => ~Dispatches(r)]_vars

\* C3: once the processor has consumed an APIResponse event of request r it
\* never dispatches a further attempt of r.
C3_NoDispatchAfterResponse ==
    [][\A r \in RequestIDs :
         (\E a \in 0..MaxRetries : Consumed("api-response", r, a))
             => ~Dispatches(r)]_vars

\* C4: an APITimeout(a) event consumed after the APIResponse(a) or
\* APIFailure(a) of the same request and attempt changes no attempt state
\* and dispatches nothing.
C4_LateTimeoutIgnored ==
    [][(/\ ppos' = ppos + 1
        /\ log[ppos + 1].cls = "api-timeout"
        /\ \/ Consumed("api-response", log[ppos + 1].caus, log[ppos + 1].attempt)
           \/ Consumed("api-failure", log[ppos + 1].caus, log[ppos + 1].attempt))
          => (requests' = requests /\ log' = log)]_vars

\* C9: fed the same prefix of the log from start_after = 0, the observer
\* and the processor hold identical attempt vectors for every request (and
\* so the same overall state) after every event.
C9_ObserverMatchesProcessor ==
    opos = ppos =>
        /\ DOMAIN orequests = DOMAIN requests
        /\ \A r \in DOMAIN requests :
             /\ orequests[r] = requests[r]
             /\ State(orequests[r]) = State(requests[r])
        /\ opanic = ppanic

\* both have handled a timeout that arrived after the result of its attempt
C9_Witness ==
    /\ opos = ppos
    /\ \E r \in DOMAIN requests : \E a \in 0..MaxRetries :
         \E i \in EventsOf("api-timeout", r, a) :
            /\ i <= ppos
            /\ \E j \in EventsOf("api-failure", r, a) \cup EventsOf("api-response", r, a) :
                 j < i

\* the timers running for attempt a of request r
TimersOf(r, a) == {t \in timers : t.caus = r /\ t.attempt = a}

\* C10: every APIRequest(k) inserted through the decorator with causation
\* req while a timeout is set gets exactly one APITimeout(k) with causation
\* req appended, eventually, whether or not the attempt's result came first;
\* inserts of other event classes start no timer.
C10_OneTimeoutPerArmedRequest ==
    /\ [](\A t \in timers : t.src \in armed /\ log[t.src].cls = "api-request")
    /\ [](\A r \in RequestIDs : \A a \in 0..MaxRetries :
            Cardinality(EventsOf("api-timeout", r, a)) + Cardinality(TimersOf(r, a))
                = Cardinality(EventsOf("api-request", r, a) \cap armed))
    /\ \A i \in 1..MaxLog :
         (i \in armed) ~> (/\ i \in armed
                           /\ \A t \in timers : t.src # i
                           /\ EventsOf("api-timeout", log[i].caus, log[i].attempt) # {})

\* the timer of an attempt fired after the attempt's response was appended
C10_Witness ==
    \E r \in RequestIDs : \E a \in 0..MaxRetries :
        \E i \in EventsOf("api-timeout", r, a) :
            /\ \E j \in EventsOf("api-response", r, a) : j < i
            /\ \E k \in EventsOf("api-request", r, a) : k \in armed


(* ------------------------- views of the store ------------------------- *)
\* the Insert calls made with external UUID u that have returned
CallsOf(u) == {c \in mcalls : c.uuid = u}

\* the tasks whose Insert call with external UUID u is still running
RunningOf(u) == {t \in Tasks : ipc[t] # "idle" /\ ienv[t].uuid = u}

\* an Insert call returns DuplicateEventUUID in this step
ReturnsDuplicate == \E c \in mcalls' \ mcalls : c.res = "DuplicateEventUUID"

\* C5: an Insert whose non-nil external UUID is already stored returns
\* DuplicateEventUUID; the step that returns it changes neither the events
\* nor the notifications; the stored ids stay 1..n, one notification exists
\* per returned successful insert; and once all concurrent Insert calls of
\* one non-nil UUID have returned, exactly one of them succeeded.
C5_DuplicateUUIDLeavesStoreUnchanged ==
    /\ [](\A c \in mcalls : (c.uuid # 0 /\ ~c.fresh) => c.res = "DuplicateEventUUID")
    /\ [][ReturnsDuplicate => (mevents' = mevents /\ mnotes' = mnotes)]_vars
    /\ [](IDs(mevents) = 1..Len(mevents))
    /\ [](Len(mnotes) - 1 = Cardinality({c \in mcalls : c.res = "ok"}))
    /\ [](Len(mevents) = Cardinality({c \in mcalls : c.res = "ok"})
                          + Cardinality({t \in Tasks : ipc[t] = "notify"}))
    /\ [](\A u \in UUIDs \ {0} :
            (CallsOf(u) # {} /\ RunningOf(u) = {}) =>
                /\ Cardinality({c \in CallsOf(u) : c.res = "ok"}) = 1
                /\ \A c \in CallsOf(u) : c.res \in {"ok", "DuplicateEventUUID"})

\* two Insert calls raced on one UUID that was not yet stored, one of them
\* returned DuplicateEventUUID, and a later insert got id 2
C5_Witness ==
    /\ \E c \in mcalls : c.res = "DuplicateEventUUID" /\ c.fresh
    /\ \E c \in mcalls : c.res = "ok" /\ c.id = 2
    /\ \A t \in Tasks : ipc[t] = "idle"

\* C6: the ids of the stored events are exactly 1..n, each once, and every
\* successful Insert returns an id greater than every id that was stored
\* when the call started.
C6_DenseIncreasingIDs ==
    /\ IDs(mevents) = 1..Len(mevents)
    /\ \A c \in mcalls : c.res = "ok" => c.id > c.start
    /\ \A c \in mcalls : c.res # "error"

\* an Insert call lost the race on max(id)+1, asked findNextID again and
\* succeeded
C6_Witness ==
    /\ \E c \in mcalls : c.res = "ok" /\ c.retried /\ c.id > c.start + 1
    /\ Len(mevents) >= 2


\* the ids of a stream come strictly increasing, and none that is stored
\* lies between two neighbours, or between startAfter and the first
FollowInOrder(after, out, stored) ==
    /\ \A k \in 1..Len(out) :
          LET prev == IF k = 1 THEN after ELSE out[k - 1]
          IN  /\ prev < out[k]
              /\ \A id \in stored : ~(prev < id /\ id < out[k])

\* C7: FollowEvents delivers strictly increasing ids and skips no stored
\* event, with both stores, while other tasks insert.
C7_FollowInOrderNoSkip ==
    /\ FollowInOrder(fstart, fout, IDs(mevents))
    /\ FollowInOrder(gstart, gout, PgVisible(pgrows))

Range(seq) == {seq[i] : i \in 1..Len(seq)}

\* the ids of the rows committed while the stream was active
PgLive == {pgrows[i].id : i \in {k \in 1..Len(pgrows) : pgrows[k].committed /\ pgrows[k].live}}

\* C8: when no Insert is running and the follower waits with no notification
\* left to receive, every event stored after startAfter has been delivered
\* (a state the follower never leaves, so what is missing is never delivered).
C8_NothingLeftUndelivered ==
    /\ (fpc = "wait" /\ fcur = Len(mnotes) /\ \A t \in Tasks : ipc[t] = "idle")
          => \A id \in IDs(mevents) : id > fstart => id \in Range(fout)
    /\ (gpc = "wait" /\ gqueue = 0 /\ \A t \in Tasks : pgpc[t] = "idle")
          => \A id \in PgLive : id > gstart => id \in Range(gout)

\* C11: a Configuration event crossing the decorator's stream leaves the
\* stored timeout unchanged when its timeout is negative, disables it when
\* zero, and sets it to the value when positive.
C11_DecoratorTimeoutUpdate ==
    [][(dpos' = dpos + 1 /\ log[dpos + 1].cls = "configuration") =>
            dtimeout' = IF log[dpos + 1].timeout < 0 THEN dtimeout
                        ELSE IF log[dpos + 1].timeout = 0 THEN {}
                        ELSE {log[dpos + 1].timeout}]_vars

\* an event of class c is appended to the log in this step
Appends(c) == Len(log') = Len(log) + 1 /\ log'[Len(log')].cls = c

\* C12: once the context is cancelled or the store closed, no APITimeout event
\* is appended any more, also for the timers that were scheduled before.
C12_NoTimeoutAfterShutdown == [][(cancelled \/ closed) => ~Appends("api-timeout")]_vars

\* a timeout was scheduled for an APIRequest, the context was cancelled or
\* the store closed, the timer ran, and the log holds no APITimeout for it
C12_Witness ==
    /\ cancelled \/ closed
    /\ \E i \in armed :
          /\ \A t \in timers : t.src # i
          /\ EventsOf("api-timeout", log[i].caus, log[i].attempt) = {}

\* C13: every APIResponse, APIFailure and APITimeout event in the log comes
\* after an APIRequest event with the same causation and attempt.
C13_RequestPrecedesResult ==
    \A i \in 1..Len(log) :
        log[i].cls \in {"api-response", "api-failure", "api-timeout"} =>
            \E j \in 1..(i - 1) :
                /\ log[j].cls = "api-request"
                /\ log[j].caus = log[i].caus
                /\ log[j].attempt = log[i].attempt

\* C14: for every request and attempt the log holds at most one event that
\* is an APIResponse or an APIFailure of that attempt.
C14_OneResultPerAttempt ==
    \A r \in RequestIDs : \A a \in 0..MaxRetries :
        Cardinality(EventsOf("api-response", r, a) \cup EventsOf("api-failure", r, a)) <= 1

\* C15: the notifications come in the order of their ids, and the event of
\* every notification is stored.
C15_NotificationsInOrder ==
    /\ \A i, j \in 1..Len(mnotes) : i < j => mnotes[i] < mnotes[j]
    /\ \A i \in 2..Len(mnotes) : mnotes[i] \in IDs(mevents)

\* C16: a processor started with lastProcessedID = k holds the retries, the
\* timeout and the requests that the running processor held when it had just
\* consumed id k.
C16_ColdStartMatchesLive ==
    \A c \in cold :
        c.start = ppos =>
            /\ c.retries = retries
            /\ c.timeout = timeout
            /\ c.requests = requests

\* the first n Insert calls on both stores have returned and were made with
\* the same external UUIDs
SameCalls(n) ==
    \A m \in 1..n : \E c \in mcalls, d \in pgcalls : c.n = m /\ d.n = m /\ c.uuid = d.uuid

\* C17: after the same sequence of Insert calls the MongoDB store and the
\* PostgreSQL store have returned the same results and ids, and hold events
\* with the same ids.
C17_StoresEquivalent ==
    /\ \A c \in mcalls, d \in pgcalls :
          (c.n = d.n /\ SameCalls(c.n)) =>
              /\ (c.res = "ok") = (d.res = "ok")
              /\ c.id = d.id
    /\ (/\ \A t \in Tasks : ipc[t] = "idle" /\ pgpc[t] = "idle"
        /\ mcount = pgcount
        /\ SameCalls(mcount)) => IDs(mevents) = PgVisible(pgrows)

\* the stored events that carry the external UUID u
StoredWith(u) == {i \in 1..Len(mevents) : mevents[i].uuid = u}

\* a POST is answered 400 in this step
Answers400 == posts' # posts

\* C18: POST /request/<uuid> answers 400 for a nil or malformed UUID without
\* calling Insert, 201 when Insert succeeds, 409 when it returns
\* DuplicateEventUUID and 500 on another error; every stored event carries a
\* non-nil UUID, and however often a POST is repeated one event is stored
\* for its UUID, the one of the single 201.
C18_IngressStatus ==
    /\ [](\A p \in Answers :
            /\ p.status \in {201, 400, 409, 500}
            /\ (p.uuid = 0 \/ ~p.body) <=> p.status = 400
            /\ p.status = 400 <=> p.n = 0
            /\ p.n # 0 => \E c \in mcalls :
                  /\ c.n = p.n /\ c.uuid = p.uuid
                  /\ (p.status = 201) <=> (c.res = "ok")
                  /\ (p.status = 409) <=> (c.res = "DuplicateEventUUID")
                  /\ (p.status = 500) <=> (c.res = "error"))
    /\ [][Answers400 => (mevents' = mevents /\ mcount' = mcount /\ ipc' = ipc)]_vars
    /\ [](\A i \in 1..Len(mevents) : mevents[i].uuid # 0)
    /\ [](\A u \in UUIDs \ {0} :
            /\ Cardinality(StoredWith(u)) <= 1
            /\ Cardinality({p \in Answers : p.uuid = u /\ p.status = 201}) <= 1
            /\ (\E p \in Answers : p.uuid = u /\ p.status \in {201, 409}) =>
                  Cardinality(StoredWith(u)) = 1)

\* one POST was answered 201, its repetition 409, and one with a nil UUID
\* 400, with one event stored
C18_Witness ==
    \E u \in UUIDs \ {0} :
        /\ \E p \in Answers : p.uuid = u /\ p.status = 201
        /\ \E p \in Answers : p.uuid = u /\ p.status = 409
        /\ \E p \in Answers : p.status = 400 /\ p.uuid = 0
        /\ Len(mevents) = 1

\* the first slot of v that is state_initial or state_success (0: none)
FirstDecisive(v) ==
    IF \E i \in 1..Len(v) : v[i] \in {"initial", "success"}
    THEN CHOOSE i \in 1..Len(v) :
            /\ v[i] \in {"initial", "success"}
            /\ \A j \in 1..(i - 1) : v[j] \notin {"initial", "success"}
    ELSE 0

\* C19: State() returns Pending at the first Initial slot, Success at the
\* first Success slot, otherwise the value of the last slot; so Failure and
\* Timeout are returned only without an Initial and without a Success slot,
\* and a failed or timed-out attempt followed by an Initial slot gives Pending.
C19_StateScan ==
    sres # "none" =>
        /\ FirstDecisive(svec) # 0 =>
              sres = IF svec[FirstDecisive(svec)] = "initial" THEN "pending" ELSE "success"
        /\ FirstDecisive(svec) = 0 => sres = svec[Len(svec)]
        /\ sres \in {"failure", "timeout"} =>
              \A i \in 1..Len(svec) : svec[i] \notin {"initial", "success"}
        /\ (\E i \in 1..(Len(svec) - 1) :
               /\ svec[i] \in {"failure", "timeout"}
               /\ svec[i + 1] = "initial"
               /\ \A j \in 1..i : svec[j] # "success") => sres = "pending"

\* State() was called on a request whose first attempt failed or timed out
\* and whose second is not yet made
C19_Witness ==
    /\ Len(svec) >= 2
    /\ svec[1] \in {"failure", "timeout"}
    /\ svec[2] = "initial"
    /\ sres = "pending"

\* C20: LoadEvents emits ids in ascending order, each once, and when its
\* channel is closed it has emitted exactly the ids greater than startAfter
\* that were stored when it read the log.
C20_LoadEventsAscending ==
    /\ \A i, j \in 1..Len(lout) : i < j => lout[i] < lout[j]
    /\ \A i \in 1..Len(lout) : lout[i] \in lsnap
    /\ lpc = "closed" => Range(lout) = lsnap


\* C21: FollowEvents validates a nonzero startAfter: when no event with
\* that id exists, the closed channel comes with an error of the store.
C21_StartAfterValidated ==
    (fpc = "closed" /\ fstart # 0 /\ ~MIDCollides(mevents, fstart)) => merr # "nil"


\* an error result of a call on the store
Failed(res) == res # "ok"

\* the Insert calls started after Close
LaterInserts ==
    IF driver = "mongodb"
    THEN {c \in mcalls : mclosedAt >= 0 /\ c.n > mclosedAt}
    ELSE {c \in pgcalls : pgclosedAt >= 0 /\ c.n > pgclosedAt}

\* C22: after Close every later call of Insert, ResolveUUID, RetrieveOne,
\* LoadEvents, FollowEvents and FollowNotifications fails with an error and
\* appends nothing to the log; the error state of a store, once set (by
\* Close or by an I/O error), is never cleared.
C22_ClosedStoreRefuses ==
    /\ [](\A c \in LaterInserts : Failed(c.res) /\ c.id = 0)
    /\ [](slast.closed => Failed(slast.res))
    /\ [](mclosedAt >= 0 => merr # "nil")
    /\ [](pgclosedAt >= 0 => pgerr # "nil")
    /\ [][mevents' # mevents =>
            \E t \in Tasks : /\ ipc[t] = "insert" /\ ipc'[t] = "notify"
                             /\ (mclosedAt >= 0 => icall[t].n <= mclosedAt)]_vars
    /\ [][pgrows' # pgrows =>
            \E t \in Tasks : /\ pgpc[t] # pgpc'[t]
                             /\ (pgclosedAt >= 0 => pgid[t].n <= pgclosedAt)]_vars
    /\ [][merr # "nil" => merr' # "nil"]_vars
    /\ [][pgerr # "nil" => pgerr' # "nil"]_vars

\* the store has stored an event, was closed, and has since refused an
\* Insert and a FollowEvents
C22_Witness ==
    /\ LaterInserts # {}
    /\ slast.closed /\ slast.op = "follow_events"
    /\ IF driver = "mongodb" THEN Len(mevents) >= 1 ELSE Len(pgrows) >= 1


\* C23: when an I/O error occurs while the stream of FollowEvents is
\* produced, the store's error state is non-nil once the channel is closed,
\* and ProcessRequests returns exactly that error, a non-nil one.
C23_StreamErrorReported ==
    /\ (fio /\ fpc = "closed") => merr # "nil"
    /\ (fio /\ pret # "running") => (pret # "nil" /\ pret = merr)


\* C24: cancelling the context passed to FollowEvents eventually closes the
\* returned channel and ends every goroutine started for the stream, also
\* one that is blocked handing over an envelope or a notification.
C24_CancelEndsProducers ==
    cancelled ~> (fpc \in {"off", "closed"} /\ npc \in {"off", "done"})


\* C25: inserts with the nil external UUID never collide: every Insert with
\* uuid.Nil that returns has succeeded, none returns DuplicateEventUUID,
\* and the non-nil external UUIDs in the log are pairwise distinct.
C25_NilUUIDNeverCollides ==
    /\ \A c \in mcalls : c.uuid = 0 => (c.res = "ok" /\ c.id # 0)
    /\ \A i, j \in 1..Len(mevents) :
         (i # j /\ mevents[i].uuid # 0) => mevents[i].uuid # mevents[j].uuid

\* two events with the nil UUID are stored next to one with a client's UUID
C25_Witness ==
    /\ Cardinality({c \in mcalls : c.uuid = 0 /\ c.res = "ok"}) >= 2
    /\ Cardinality({i \in 1..Len(mevents) : mevents[i].uuid = 0}) >= 2
    /\ \E i \in 1..Len(mevents) : mevents[i].uuid # 0


\* C26: ResolveUUID is the inverse of Insert on external UUIDs: once
\* Insert with a non-nil u has returned id i, ResolveUUID(u) returns i in
\* every later state; for a non-nil UUID that no event carries it returns
\* not-found, for the nil UUID it returns an error, and no ResolveUUID call
\* changes the log.
C26_ResolveInvertsInsert ==
    /\ [](\A c \in mcalls : (c.res = "ok" /\ c.uuid # 0) =>
            MResolveUUID(mevents, merr, c.uuid) = Result("ok", c.id))
    /\ [](\A c \in mcalls : (c.res = "ok" /\ c.uuid = rlast.uuid /\ rlast.res = "ok")
            => rlast.id = c.id)
    /\ []((rlast.res # "none" /\ rlast.uuid # 0 /\ ~rlast.carried)
            => rlast.res = "document not found")
    /\ []((rlast.res # "none" /\ rlast.uuid = 0)
            => rlast.res = "provided external UUID is null")
    /\ [][rlast' # rlast => (mevents' = mevents /\ mnotes' = mnotes)]_vars

\* an Insert with a client's UUID has returned its id, a second one was
\* refused as a duplicate, and ResolveUUID has returned that id
C26_Witness ==
    /\ \E c \in mcalls : c.res = "ok" /\ c.uuid # 0 /\ rlast.uuid = c.uuid
                         /\ rlast.res = "ok" /\ rlast.id = c.id
    /\ \E c \in mcalls : c.res = "DuplicateEventUUID"


\* request r was made with retries = 0, its APIRequest(0) was inserted while
\* a timeout was set, and the upstream call has returned neither a response
\* nor an error
SilentArmed(r) ==
    /\ r \in RequestIDs
    /\ RetriesAt(r) = 0
    /\ \E i \in EventsOf("api-request", r, 0) \cap armed : Call(i, r, 0) \notin calls
    /\ EventsOf("api-response", r, 0) = {}
    /\ EventsOf("api-failure", r, 0) = {}

\* C27: with retries = 0 and a timeout enabled, when the upstream returns
\* neither a response nor an error for attempt 0, no APIResponse and no
\* APIFailure is inserted for it, APITimeout(0) is appended, no further
\* attempt is dispatched, and the observer's final state of the request is
\* Timeout.
C27_SilentUpstreamTimesOut ==
    /\ [](\A r \in RequestIDs : RetriesAt(r) = 0 =>
            AttemptsOf(r) \subseteq EventsOf("api-request", r, 0))
    /\ [][\A r \in RequestIDs : SilentArmed(r) =>
            /\ SilentArmed(r)'
            /\ AttemptsOf(r)' = AttemptsOf(r)]_vars
    /\ <>[](\A r \in RequestIDs : SilentArmed(r) =>
                /\ EventsOf("api-timeout", r, 0) # {}
                /\ r \in DOMAIN orequests
                /\ State(orequests[r]) = "timeout")

\* the observer has seen the timeout of a request whose upstream call gave
\* nothing
C27_Witness ==
    \E r \in RequestIDs :
        /\ SilentArmed(r)
        /\ EventsOf("api-timeout", r, 0) # {}
        /\ r \in DOMAIN orequests
        /\ State(orequests[r]) = "timeout"


C29_AttemptsInOrder ==
    /\ \A r \in RequestIDs : \A j \in AttemptsOf(r) :
         log[j].attempt > 0 =>
            \E i \in EventsOf("api-request", r, log[j].attempt - 1) : i < j
    /\ \A r \in DOMAIN requests :
         NextAttempt(requests[r]) =
            Cardinality({i \in 1..Len(requests[r]) : requests[r][i] # "initial"})


\* C30: an attempt slot that has reached success or failure is final, in
\* the processor's map and in the observer's: such a slot keeps its value in
\* every step (only a pending slot can become timeout).
C30_ResultSlotsFinal ==
    [][/\ \A r \in DOMAIN requests \cap DOMAIN requests' :
            \A i \in 1..Len(requests[r]) :
               requests[r][i] \in {"success", "failure"} =>
                  requests'[r][i] = requests[r][i]
       /\ \A r \in DOMAIN orequests \cap DOMAIN orequests' :
            \A i \in 1..Len(orequests[r]) :
               orequests[r][i] \in {"success", "failure"} =>
                  orequests'[r][i] = orequests[r][i]]_vars


\* C31: a Configuration event changes the retry budget only of the requests
\* consumed after it: no step changes the length of the attempt vector of a
\* request the processor holds, a Configuration event with negative retries
\* leaves the processor's retries as it is, and a Request is given the
\* retries of the last Configuration event before it that set them.
C31_ConfigurationFrame ==
    [][/\ \A r \in DOMAIN requests :
            /\ r \in DOMAIN requests'
            /\ Len(requests'[r]) = Len(requests[r])
       /\ (/\ ppos' = ppos + 1
           /\ log[ppos + 1].cls = "configuration"
           /\ log[ppos + 1].retries < 0) => retries' = retries
       /\ (/\ ppos' = ppos + 1
           /\ log[ppos + 1].cls = "request")
          => Retries(requests'[ppos + 1]) = RetriesAt(ppos)]_vars

\* the processor holds a request made with the default retries and has
\* consumed a later Configuration event that sets another value
C31_Witness ==
    \E r \in DOMAIN requests : \E c \in (r + 1)..ppos :
        /\ log[c].cls = "configuration"
        /\ log[c].retries > 0
        /\ retries = log[c].retries
        /\ Retries(requests[r]) = 0


\* C32: the observer is read-only: a step of WatchRequests appends no event
\* and starts no upstream call, it changes only the observer's own state,
\* so every change of the log, the timers, the calls and the processor is a
\* step of the clients, the processor, the decorator or the upstream.
C32_ObserverReadOnly ==
    /\ [][opos' # opos =>
            UNCHANGED <<log, dtimeout, dpos, timers, calls, procVars, armed>>]_vars
    /\ [][Broker(ObsClients, ObsRetries, ObsLog, {TRUE})]_<<log, dtimeout, dpos,
                                                  timers, calls, procVars, armed>>

\* the observer has followed a request through its first attempt, to the
\* end of the log
C32_Witness ==
    /\ opos = Len(log)
    /\ \E r \in DOMAIN orequests :
          /\ orequests[r][1] \in {"success", "failure", "timeout"}
          /\ EventsOf("api-request", r, 0) # {}


\* C33: every event with a non-zero causation id refers to an event with a
\* smaller id; the APIRequest and APITimeout events, and the upstream calls
\* and timers that write the APIResponse, APIFailure and APITimeout events,
\* carry the id of a Request event as causation; an APITimeout event has
\* the attempt and the causation of an APIRequest event before it.
C33_CausationValid ==
    /\ \A i \in 1..Len(log) : log[i].caus # 0 => log[i].caus < i
    /\ \A i \in 1..Len(log) :
          log[i].cls \in {"api-request", "api-timeout"} => log[i].caus \in RequestIDs
    /\ \A c \in calls : c.caus \in RequestIDs
    /\ \A t \in timers : t.caus \in RequestIDs
    /\ \A i \in 1..Len(log) :
          log[i].cls = "api-timeout" =>
             \E j \in EventsOf("api-request", log[i].caus, log[i].attempt) : j < i


\* C34: the logging decorator is transparent: every call returns the value
\* and the error of the wrapped store, its stream delivers the envelopes of
\* the wrapped stream in the order of the wrapped stream and is closed,
\* with all of them delivered, once the wrapped stream is closed.
C34_LoggingTransparent ==
    /\ [](wcall.op # "none" => wcall.outer = wcall.inner)
    /\ [](/\ Len(wout) <= Len(wemit)
          /\ wout = SubSeq(wemit, 1, Len(wout))
          /\ Len(wemit) - Len(wout) = Cardinality(whold))
    /\ [](wpc = "closed" => (wclosed /\ wout = wemit))
    /\ [][wpc' = "closed" => wclosed]_vars
    /\ [](wclosed => <>(wpc = "closed"))

\* the wrapped stream emitted envelope 2 before envelope 1 and was closed,
\* the decorator delivered both and closed its channel, and the last call
\* through the decorator was an Insert that failed
C34_Witness ==
    /\ wpc = "closed"
    /\ Len(wout) >= 2
    /\ wout[1] = 2 /\ wout[2] = 1
    /\ wcall.op = "Insert"
    /\ wcall.inner.err = "failed"


\* a Configuration event with a positive timeout precedes request r, and no
\* Configuration event of the log sets the timeout to 0
TimeoutInForce(r) ==
    /\ r <= Len(log)
    /\ \E i \in 1..(r - 1) : log[i].cls = "configuration" /\ log[i].timeout > 0
    /\ \A i \in 1..Len(log) : log[i].cls = "configuration" => log[i].timeout # 0

\* Success, or Failure or Timeout with every attempt used
Terminal(att) ==
    \/ State(att) = "success"
    \/ /\ State(att) \in {"failure", "timeout"}
       /\ NextAttempt(att) = Len(att)

\* C35: with a positive timeout configured before the request, no
\* cancellation and no store error, every Request the processor consumed
\* eventually reaches a terminal overall state, whatever the upstream does
\* (the obligation ends where the log of the model has no room left).
C35_RequestsTerminate ==
    \A r \in 1..LiveLog :
        [](r \in DOMAIN requests /\ TimeoutInForce(r)
             => <>(\/ r \in DOMAIN requests /\ Terminal(requests[r])
                   \/ ~TimeoutInForce(r)
                   \/ Room(LiveLog) < 2))


\* the timeout of the decorator once its pass-through has taken the first n
\* envelopes of the log: the one of the last Configuration event among them
DecoratorAt(n) ==
    LET cs == {i \in 1..n : log[i].cls = "configuration"}
    IN  IF cs = {} THEN {}
        ELSE DecoratorTimeout(log[CHOOSE i \in cs : \A j \in cs : j <= i])

\* C36: when the processor inserts an APIRequest while it handles log event
\* e, the timeout the decorator applies to the insert is the one of the
\* last Configuration event before e; a Configuration event after e has no
\* effect on it.
C36_TimeoutOfPrecedingConfiguration ==
    [][(/\ ppos' = ppos + 1
        /\ Len(log') = Len(log) + 1
        /\ log'[Len(log')].cls = "api-request")
       => /\ dtimeout = DecoratorAt(ppos + 1)
          /\ (Len(log') \in armed') = (DecoratorAt(ppos + 1) # {})]_vars


\* C37: every attempt used to index the attempt vector of a request is
\* within it, in the processor and in the observer, also when one of them is
\* started after the Configuration event that set the retries the writer of
\* the events used: neither ends in an index-out-of-range panic.
C37_AttemptIndexInBounds ==
    /\ ~ppanic
    /\ ~opanic
    /\ ppos < dpos => ~IndexPanics(requests, log[ppos + 1])
    /\ opos < Len(log) => ~IndexPanics(orequests, log[opos + 1])


\* C38: a processor that replays a log which holds a Request event with its
\* APIRequest and result events dispatches nothing for it: no step inserts
\* an APIRequest event, or starts an upstream call, for an attempt of a
\* request of which the log holds an APIRequest event already.
C38_ReplayDispatchesNothing ==
    [][/\ (/\ Len(log') = Len(log) + 1
           /\ log'[Len(log')].cls = "api-request")
          => EventsOf("api-request", log'[Len(log')].caus,
                      log'[Len(log')].attempt) = {}
       /\ \A c \in calls' \ calls :
             EventsOf("api-request", c.caus, c.attempt) = {}]_vars

====
